---- MODULE Spec2Model ----
(***************************************************************************)
(* Model of the Slack planning-poker bot: the /poker and /poker-reveal     *)
(* command handlers, the interactive vote-action handler, the session and  *)
(* vote services with the latest-session cache, and the workspace token    *)
(* resolver.                                                               *)
(*                                                                         *)
(* Every handler is an async function.  It is cut at the awaits of its     *)
(* calls on the tables sessions and votes: a step runs the code up to the  *)
(* next such call, the store executes the call at the moment it is issued, *)
(* and the result waits in the request's locals until the continuation     *)
(* runs in a later step.  Steps of different requests interleave freely,   *)
(* as the Node event loop allows.  The other awaits (the installation      *)
(* lookup of getBotToken, the delayed POST, reactions.add) neither read    *)
(* nor write anything a concurrent request changes, so they are taken      *)
(* inside the step that issues them, with every outcome they can have.     *)
(***************************************************************************)
EXTENDS Integers, Sequences, FiniteSets, TLC

\* ------------------------------------------------------------------ bounds
MaxCommands == 3
MaxActions == 2
MaxClock == 3
MaxReactions == 2

\* ------------------------------------------------------- input universes
Slots == {1, 2}
Channels == {"C1", "C2"}
Users == {"U1", "U2"}
Names == {"alice", "al"}
Teams == {"T1", "T2"}
NoTeam == "absent"
Issues == {"", "Fix login bug"}
UrlInputs == {TRUE}
VoteTargets == {1}
VoteInputs == {5, 13}
NoSession == 0
SessionIds == 1..MaxClock

\* payload shapes of a POST /actions request
\* (legacy: payload.type interactive_message, block: payload.type block_actions;
\* notvote: an action whose name or action_id is not that of a vote, or whose
\* value is empty; noid: a block action without action_id)
InvalidShapes == {"missing", "badjson", "badtype", "noactions", "notvote", "noid", "badvalue"}
ValidShapes == {"legacy", "block"}
Shapes == InvalidShapes \cup ValidShapes

\* ------------------------------------------------------------ constants
DefaultToken == "xoxb-default"
InstalledToken == "xoxb-T1"

UsageHint == "Please provide an issue description or link. Usage: /poker [issue]"
CreateError == "Error: Could not create a new planning poker session."
CommandError == "Sorry, there was an error processing your command. Please try again."
NoActiveSession == "No active planning poker session found for this channel."
RetrievalError == "Error: Could not retrieve votes for the current session."
NoVotesText == "No votes have been cast for the current session."
OnlyPokerCommands == "This endpoint only handles the /poker and /poker-reveal commands."
MissingPayload == "Error: Missing payload in the request."
NoActionsFound == "Error: No actions found in payload."
UnsupportedAction == "Error: Unsupported action."
InvalidVoteData == "Error: Invalid vote data."
UnsupportedType == "Error: Unsupported payload type."
SaveError == "Error: Could not save your vote."
ActionError == "Sorry, there was an error processing your action. Please try again."
Recorded == "has been recorded"
Updated == "has been updated"

VARIABLES
  sessions,                 \* rows of table sessions
  votes,                    \* rows of table votes
  installations,            \* rows of table team_installations
  latestSessionPerChannel,  \* the in-memory cache: channel -> session id
  now,                      \* the clock, in milliseconds
  nreq,                     \* requests received so far (bounded per endpoint)
  req,                      \* per slot: the inputs of the request
  pc,                       \* per slot: where the handler is suspended
  loc,                      \* per slot: the handler's locals
  http,                     \* per slot: the HTTP responses written to res
  delayed,                  \* per slot: the messages POSTed to response_url
  lastReturned,             \* history: channel -> id returned by the last successful createSession
  lastUpsert,               \* history: (session, user) -> the row of the last upsert applied
  voteCreatedAt             \* column created_at of votes: (session, user) -> clock at the insert, 0 without row

vars == <<sessions, votes, installations, latestSessionPerChannel, now, nreq,
          req, pc, loc, http, delayed, lastReturned, lastUpsert, voteCreatedAt>>

\* ------------------------------------------------------------- the store
SessionRow(id, channel, issue, at) ==
  [id |-> id, channel |-> channel, issue |-> issue, created_at |-> at]

VoteRow(sessionId, userId, vote, username) ==
  [session_id |-> sessionId, user_id |-> userId, vote |-> vote, username |-> username]

\* select * from sessions where id = :id limit 1
SessionsById(id) == {s \in sessions : s.id = id}

\* the channel query with the order reversed: the oldest session of the channel
LatestByChannelAscending(c) ==
  {s \in sessions : s.channel = c /\
      \A t \in sessions : t.channel = c => s.created_at <= t.created_at}

\* select * from sessions where channel = :c order by created_at desc limit 1
LatestByChannel(c) ==
  {s \in sessions : s.channel = c /\
      \A t \in sessions : t.channel = c => t.created_at <= s.created_at}

\* select * from votes where session_id = :id
VotesOf(id) == {v \in votes : v.session_id = id}

\* select * from team_installations where team_id = :t limit 1
InstallationsOf(t) == {i \in installations : i.team_id = t}

\* insert into sessions: the primary key id rejects a second row with the same id
InsertAccepted(id) == SessionsById(id) = {}

\* a plain insert into votes, without the conflict key (session_id, user_id)
UpsertAppend(vs, row) == vs \cup {row}

\* upsert into votes ... on conflict (session_id, user_id)
Upsert(vs, row) ==
  {v \in vs : ~(v.session_id = row.session_id /\ v.user_id = row.user_id)} \cup {row}

\* votes.session_id references sessions(id)
UpsertAccepted(sessionId) == SessionsById(sessionId) # {}

\* ---------------------------------------------------- messages and replies
ButtonValues == {1, 2, 3, 5, 8}

Msg(type, text, sessionId, buttons, total, dist) ==
  [type |-> type, text |-> text, sessionId |-> sessionId, buttons |-> buttons,
   total |-> total, dist |-> dist]

TextMsg(text) == Msg("text", text, NoSession, {}, 0, <<>>)

Reply(status, text, vote) == [status |-> status, text |-> text, vote |-> vote]

\* the session message with a button for 13 after the five of the scale
createPokerSessionMessageWide(userId, issue, sessionId) ==
  Msg("session", issue, sessionId,
      {[sessionId |-> sessionId, vote |-> v] : v \in ButtonValues \cup {13}}, 0, <<>>)

\* createPokerSessionMessage: one button per value, each carrying {sessionId, vote}
createPokerSessionMessage(userId, issue, sessionId) ==
  Msg("session", issue, sessionId,
      {[sessionId |-> sessionId, vote |-> v] : v \in ButtonValues}, 0, <<>>)

RECURSIVE SortLexical(_), SortAsc(_)

\* where a decimal numeral below 100 stands in the order of strings
LexKey(n) == IF n < 10 THEN n * 100 ELSE (n \div 10) * 100 + (n % 10) + 1

\* sort() without a compare function: the keys in the order of strings
SortLexical(S) ==
  IF S = {} THEN <<>>
  ELSE LET m == CHOOSE x \in S : \A y \in S : LexKey(x) <= LexKey(y)
       IN <<m>> \o SortLexical(S \ {m})

\* sort((a, b) => a - b): the keys in the order of numbers
SortAsc(S) ==
  IF S = {} THEN <<>>
  ELSE LET m == CHOOSE x \in S : \A y \in S : x <= y
       IN <<m>> \o SortAsc(S \ {m})

\* vote.username || `<@${vote.user_id}>`
DisplayName(v) == IF v.username = "" THEN v.user_id ELSE v.username

\* formatPokerResults: the "no votes" text for an empty or null list, else the
\* total and the distribution, one entry per distinct value in ascending
\* order with its count and the names pushed for it (a name as many times as
\* it was pushed)
formatPokerResults(vs, issue, sessionId) ==
  IF vs = {} THEN TextMsg(NoVotesText)
  ELSE LET keys == SortAsc({v.vote : v \in vs})
           entry(val) == [value |-> val,
                          count |-> Cardinality({v \in vs : v.vote = val}),
                          users |-> [n \in {DisplayName(w) : w \in {x \in vs : x.vote = val}}
                                       |-> Cardinality({w \in vs : w.vote = val
                                                                   /\ DisplayName(w) = n})]]
       IN Msg("results", issue, sessionId, {}, Cardinality(vs),
              [i \in 1..Len(keys) |-> entry(keys[i])])

\* the reveal message without the votesSuccess test: a failed fetch (votes
\* null) is formatted like a fetch of zero votes
RevealMessageUnchecked(votesSuccess, vs, issue, sessionId) ==
  formatPokerResults(vs, issue, sessionId)

\* handlePokerRevealCommand, after getSessionVotes
RevealMessage(votesSuccess, vs, issue, sessionId) ==
  IF ~votesSuccess THEN TextMsg(RetrievalError)
  ELSE formatPokerResults(vs, issue, sessionId)

\* ------------------------------------------------ workspace token resolver
\* getTeamInstallation: every store failure or exception is caught
getTeamInstallation(teamId, storeOk) ==
  IF ~storeOk THEN [success |-> FALSE, installation |-> {}]
  ELSE [success |-> TRUE, installation |-> InstallationsOf(teamId)]

\* getBotTokenForTeam: installation?.success ? installation.installation.bot_token : null
\* reads .bot_token of null when the lookup succeeds with no installation
getBotTokenForTeam(inst) ==
  IF inst.success
  THEN IF inst.installation = {}
       THEN [thrown |-> TRUE, value |-> ""]
       ELSE [thrown |-> FALSE, value |-> (CHOOSE i \in inst.installation : TRUE).bot_token]
  ELSE [thrown |-> FALSE, value |-> ""]

\* getBotToken: workspaceToken || process.env.SLACK_BOT_TOKEN
getBotToken(teamId, inst) ==
  IF teamId = NoTeam THEN [thrown |-> FALSE, value |-> DefaultToken]
  ELSE LET w == getBotTokenForTeam(inst)
       IN IF w.thrown THEN w
          ELSE [thrown |-> FALSE, value |-> IF w.value = "" THEN DefaultToken ELSE w.value]

\* ------------------------------------------------------------ request state
\* null, and a value that is not null
Null == <<>>
Some(x) == <<x>>

\* getSessionVotes has not returned
NoResult == [success |-> FALSE, session |-> Null, votes |-> Null]

NoTok == [thrown |-> FALSE, value |-> ""]

NoReq ==
  [kind |-> "none", text |-> "", user |-> "", name |-> "", channel |-> "",
   url |-> FALSE, team |-> NoTeam, shape |-> "", sessionId |-> NoSession,
   vote |-> 0, ts |-> FALSE]

InitLoc ==
  [tok |-> NoTok,            \* result of getBotToken
   ok |-> FALSE,             \* outcome of the store call being awaited
   rows |-> {},              \* rows returned by the store call being awaited
   session |-> {},           \* the session resolved by getLatestSessionForChannel
   sid |-> NoSession,        \* the id generated by createSession
   votes |-> {},             \* the rows fetched by getSessionVotes
   checkSuccess |-> FALSE,   \* hasUserVoted: success
   hasVoted |-> FALSE,       \* hasUserVoted: hasVoted
   look |-> "none",          \* history: outcome of getTeamInstallation (failed, empty, found)
   ioBeforeAck |-> FALSE,    \* history: store or network I/O was issued before the acknowledgment
   latest |-> "none",        \* history: outcome of getLatestSessionForChannel
   seen |-> NoSession,       \* history: Settled(channel) when getLatestSessionForChannel was called
   fetch |-> "none",         \* history: outcome of getSessionVotes
   result |-> NoResult,      \* history: what getSessionVotes returned
   saveIssued |-> FALSE,     \* history: saveVote was called
   saved |-> FALSE,          \* history: saveVote succeeded
   hadRow |-> FALSE,         \* history: a row of the pair existed when the upsert was applied
   overlap |-> FALSE,        \* history: another vote action of the same pair was in flight meanwhile
   reactions |-> 0,          \* history: calls of reactions.add
   afterReveal |-> FALSE,    \* history: a reveal of the session had ended when the vote action came
   cold |-> FALSE,           \* history: the cache had no entry for the channel when the reveal came
   stale |-> FALSE,          \* history: the lookup by the cached id succeeded and found no row
   swept |-> "none",         \* history: outcome of the retention sweep
   cutoff |-> 0,             \* cleanupOldData: the cutoff date
   orphans |-> "none",       \* history: outcome of the delete of the votes older than the cutoff
   reaction |-> "",          \* addReaction: the emoji of the reactions.add call being awaited
   onMessage |-> {},         \* the emojis the bot has on the message of the vote
   answer |-> "none"]        \* history: the last answer of reactions.add

\* what an earlier run of the process may have left in the store
PersistedSession == SessionRow(1, "C1", "Fix login bug", 1)
PersistedVote == VoteRow(1, "U1", 5, "alice")

Init ==
  /\ \E s \in {{}, {PersistedSession}} :
       /\ sessions = s
       /\ \E v \in {{}} \cup (IF s = {} THEN {} ELSE {{PersistedVote}}) :
            /\ votes = v
            /\ lastUpsert = [p \in SessionIds \X Users |->
                               {w \in v : w.session_id = p[1] /\ w.user_id = p[2]}]
            /\ voteCreatedAt = [p \in SessionIds \X Users |->
                                  IF \E w \in v : w.session_id = p[1] /\ w.user_id = p[2]
                                  THEN 1 ELSE 0]
  /\ installations = {[team_id |-> "T1", bot_token |-> InstalledToken]}
  /\ latestSessionPerChannel = [c \in Channels |-> NoSession]
  /\ now = 2
  /\ nreq = 0
  /\ req = [r \in Slots |-> NoReq]
  /\ pc = [r \in Slots |-> "idle"]
  /\ loc = [r \in Slots |-> InitLoc]
  /\ http = [r \in Slots |-> <<>>]
  /\ delayed = [r \in Slots |-> <<>>]
  /\ lastReturned = [c \in Channels |-> NoSession]

\* the votes an earlier run may have left for the persisted session: at most
\* one row per user, with or without a user name
PersistedVotes ==
  {vs \in SUBSET {VoteRow(1, u, v, n) : u \in Users, v \in VoteInputs, n \in {"alice", ""}} :
     \A x, y \in vs : x.user_id = y.user_id => x = y}

\* the process starts over a session with any of these votes
InitResults ==
  /\ sessions = {PersistedSession}
  /\ \E v \in PersistedVotes :
       /\ votes = v
       /\ lastUpsert = [p \in SessionIds \X Users |->
                          {w \in v : w.session_id = p[1] /\ w.user_id = p[2]}]
       /\ voteCreatedAt = [p \in SessionIds \X Users |->
                             IF \E w \in v : w.session_id = p[1] /\ w.user_id = p[2]
                             THEN 1 ELSE 0]
  /\ installations = {[team_id |-> "T1", bot_token |-> InstalledToken]}
  /\ latestSessionPerChannel = [c \in Channels |-> NoSession]
  /\ now = 2
  /\ nreq = 0
  /\ req = [r \in Slots |-> NoReq]
  /\ pc = [r \in Slots |-> "idle"]
  /\ loc = [r \in Slots |-> InitLoc]
  /\ http = [r \in Slots |-> <<>>]
  /\ delayed = [r \in Slots |-> <<>>]
  /\ lastReturned = [c \in Channels |-> NoSession]

\* sendDelayedResponse: axios.post(responseUrl, message); without a
\* response_url the post is rejected and nothing is delivered
Posted(rq, msg) == IF rq.url THEN <<msg>> ELSE <<>>

\* slot r gets val; when r ends its request (at = "done") the slot of the
\* request that ended before it is emptied, so that the state keeps what the
\* running requests and the last ended one have sent
Put(f, r, at, val, empty) ==
  [q \in Slots |-> IF q = r THEN val
                   ELSE IF at = "done" /\ pc[q] = "done" THEN empty
                   ELSE f[q]]

\* the handler of slot r goes on to its next await
Continue(r, at, l) ==
  /\ pc' = [pc EXCEPT ![r] = at]
  /\ loc' = [loc EXCEPT ![r] = l]
  /\ UNCHANGED <<req, http, delayed>>

\* the handler of slot r returns, having written replies to res and posts to
\* the response_url
Finish(r, rq, l, replies, posts) ==
  /\ pc' = Put(pc, r, "done", "done", "idle")
  /\ req' = Put(req, r, "done", rq, NoReq)
  /\ loc' = Put(loc, r, "done", [l EXCEPT !.ok = FALSE, !.rows = {}], InitLoc)
  /\ http' = Put(http, r, "done", http[r] \o replies, <<>>)
  /\ delayed' = Put(delayed, r, "done", delayed[r] \o posts, <<>>)

\* a request is taken by the first slot that has no handler running
Free(r) == pc[r] \in {"idle", "done"}
Takes(r) == Free(r) /\ \A q \in Slots : Free(q) => r <= q

\* the request rq starts in slot r and runs to its first await on the store
\* (or to its end), with locals l, having written replies and posts
Start(r, rq, at, l, replies, posts) ==
  /\ pc' = Put(pc, r, at, at, "idle")
  /\ req' = Put(req, r, at, rq, NoReq)
  /\ loc' = Put(loc, r, at, l, InitLoc)
  /\ http' = Put(http, r, at, replies, <<>>)
  /\ delayed' = Put(delayed, r, at, posts, <<>>)

\* the newest session of channel c, when it is the one the last successful
\* createSession of c returned
Settled(c) ==
  IF lastReturned[c] # NoSession /\
     LatestByChannel(c) = SessionsById(lastReturned[c]) /\ LatestByChannel(c) # {}
  THEN lastReturned[c] ELSE NoSession

\* the clock advances between any two steps
Tick ==
  /\ now < MaxClock
  /\ now' = now + 1
  /\ UNCHANGED <<sessions, votes, installations, latestSessionPerChannel, nreq,
                 req, pc, loc, http, delayed, lastReturned, lastUpsert, voteCreatedAt>>

\* the outcomes of `await getBotToken(team)`: the token or the exception, with
\* the outcome of the installation lookup it made
TokenOutcomes(team) ==
  IF team = NoTeam
  THEN {[tok |-> getBotToken(team, getTeamInstallation(team, TRUE)), look |-> "none"]}
  ELSE {[tok |-> getBotToken(team, getTeamInstallation(team, storeOk)),
         look |-> IF ~storeOk THEN "failed"
                  ELSE IF InstallationsOf(team) = {} THEN "empty" ELSE "found"]
          : storeOk \in BOOLEAN}

\* the acknowledgment res.status(200).send()
Ack == Reply(200, "", 0)

\* ------------------------------------------------------------ POST /commands
\* router.post('/commands'), any other command
ReceiveOther(r) ==
  /\ Takes(r) /\ nreq < MaxCommands
  /\ \E channel \in Channels :
       LET rq == [NoReq EXCEPT !.kind = "other", !.channel = channel, !.url = TRUE] IN
       Start(r, rq, "done", InitLoc, <<Reply(200, OnlyPokerCommands, 0)>>, <<>>)
  /\ nreq' = nreq + 1
  /\ UNCHANGED <<sessions, votes, installations, latestSessionPerChannel, now,
                 lastReturned, lastUpsert, voteCreatedAt>>

\* a catch block that only logs the exception
CommandCatchSilent(r, rq, l) ==
  Start(r, rq, "done", l, <<>>, <<>>)

\* the catch block of both command handlers: a delayed error message when the
\* request has a response_url; res is not written
CommandCatch(r, rq, l) ==
  Start(r, rq, "done", l, <<>>, Posted(rq, TextMsg(CommandError)))

\* router.post('/commands') with /poker: handlePokerCommand up to the insert
\* of createSession, for a request whose team_id is one of teams
PokerFrom(r, teams) ==
  /\ Takes(r) /\ nreq < MaxCommands
  /\ \E text \in Issues, channel \in Channels, url \in UrlInputs, team \in teams :
     \E t \in TokenOutcomes(team) :
       LET rq == [NoReq EXCEPT !.kind = "poker", !.text = text, !.user = "U1",
                               !.channel = channel, !.url = url, !.team = team]
           l == [InitLoc EXCEPT !.tok = t.tok, !.look = t.look,
                                !.ioBeforeAck = (team # NoTeam)]
       IN
       IF t.tok.thrown
       THEN CommandCatch(r, rq, l) /\ UNCHANGED sessions
       ELSE IF text = ""
       THEN /\ Start(r, rq, "done", l, <<Ack>>, Posted(rq, TextMsg(UsageHint)))
            /\ UNCHANGED sessions
       ELSE \E storeOk \in BOOLEAN :
              LET accepted == storeOk /\ InsertAccepted(now) IN
              /\ sessions' = IF accepted
                             THEN sessions \cup {SessionRow(now, channel, text, now)}
                             ELSE sessions
              /\ Start(r, rq, "p_insert", [l EXCEPT !.sid = now, !.ok = accepted],
                       <<Ack>>, <<>>)
  /\ nreq' = nreq + 1
  /\ UNCHANGED <<votes, installations, latestSessionPerChannel, now,
                 lastReturned, lastUpsert, voteCreatedAt>>

\* a /poker of any workspace
ReceivePoker(r) == PokerFrom(r, Teams \cup {NoTeam})

\* a /poker without team_id: the default token, no installation lookup
ReceivePokerDefault(r) == PokerFrom(r, {NoTeam})

\* createSession with the cache replaced by the one new entry
PokerAfterInsertSingle(r) ==
  /\ pc[r] = "p_insert"
  /\ IF ~loc[r].ok
     THEN /\ Finish(r, req[r], [loc[r] EXCEPT !.sid = NoSession], <<>>,
                    Posted(req[r], TextMsg(CreateError)))
          /\ UNCHANGED <<latestSessionPerChannel, lastReturned>>
     ELSE /\ latestSessionPerChannel' =
                [c \in Channels |-> IF c = req[r].channel THEN loc[r].sid ELSE NoSession]
          /\ lastReturned' = [lastReturned EXCEPT ![req[r].channel] = loc[r].sid]
          /\ Finish(r, req[r], loc[r], <<>>,
                    Posted(req[r], createPokerSessionMessage(req[r].user, req[r].text,
                                                             loc[r].sid)))
  /\ UNCHANGED <<sessions, votes, installations, now, nreq, lastUpsert, voteCreatedAt>>

\* createSession with the cache written before the error of the insert is
\* looked at
PokerAfterInsertEager(r) ==
  /\ pc[r] = "p_insert"
  /\ latestSessionPerChannel' =
        [latestSessionPerChannel EXCEPT ![req[r].channel] = loc[r].sid]
  /\ IF ~loc[r].ok
     THEN /\ Finish(r, req[r], [loc[r] EXCEPT !.sid = NoSession], <<>>,
                    Posted(req[r], TextMsg(CreateError)))
          /\ UNCHANGED lastReturned
     ELSE /\ lastReturned' = [lastReturned EXCEPT ![req[r].channel] = loc[r].sid]
          /\ Finish(r, req[r], loc[r], <<>>,
                    Posted(req[r], createPokerSessionMessage(req[r].user, req[r].text,
                                                             loc[r].sid)))
  /\ UNCHANGED <<sessions, votes, installations, now, nreq, lastUpsert, voteCreatedAt>>

\* createSession keeping in the cache the greater of the old and the new id
PokerAfterInsertNewest(r) ==
  /\ pc[r] = "p_insert"
  /\ IF ~loc[r].ok
     THEN /\ Finish(r, req[r], [loc[r] EXCEPT !.sid = NoSession], <<>>,
                    Posted(req[r], TextMsg(CreateError)))
          /\ UNCHANGED <<latestSessionPerChannel, lastReturned>>
     ELSE /\ latestSessionPerChannel' =
                [latestSessionPerChannel EXCEPT
                   ![req[r].channel] = IF loc[r].sid > @ THEN loc[r].sid ELSE @]
          /\ lastReturned' = [lastReturned EXCEPT ![req[r].channel] = loc[r].sid]
          /\ Finish(r, req[r], loc[r], <<>>,
                    Posted(req[r], createPokerSessionMessage(req[r].user, req[r].text,
                                                             loc[r].sid)))
  /\ UNCHANGED <<sessions, votes, installations, now, nreq, lastUpsert, voteCreatedAt>>

\* createSession after the insert, then the delayed session message; the
\* addReaction(channel_id, null, ...) that follows a delivered message returns
\* at once for want of a message timestamp
PokerAfterInsert(r) ==
  /\ pc[r] = "p_insert"
  /\ IF ~loc[r].ok
     THEN /\ Finish(r, req[r], [loc[r] EXCEPT !.sid = NoSession], <<>>,
                    Posted(req[r], TextMsg(CreateError)))
          /\ UNCHANGED <<latestSessionPerChannel, lastReturned>>
     ELSE /\ latestSessionPerChannel' =
                [latestSessionPerChannel EXCEPT ![req[r].channel] = loc[r].sid]
          /\ lastReturned' = [lastReturned EXCEPT ![req[r].channel] = loc[r].sid]
          /\ Finish(r, req[r], loc[r], <<>>,
                    Posted(req[r], createPokerSessionMessage(req[r].user, req[r].text,
                                                             loc[r].sid)))
  /\ UNCHANGED <<sessions, votes, installations, now, nreq, lastUpsert, voteCreatedAt>>

\* ------------------------------------------------------------ /poker-reveal
\* getSessionVotes, first query: the votes of the session
FetchVotes(r, session) ==
  \E storeOk \in BOOLEAN :
    Continue(r, "r_votes",
             [loc[r] EXCEPT !.session = session, !.latest = "session", !.ok = storeOk,
                            !.rows = {},
                            !.votes = IF storeOk
                                      THEN VotesOf((CHOOSE s \in session : TRUE).id)
                                      ELSE {}])

\* getSessionVotes, from the outcome of its two queries: found are the rows of
\* the votes query and rows those of the session query.  A failed session query
\* gives up the votes that were found
getSessionVotesPartial(votesOk, found, sessionOk, rows) ==
  IF ~votesOk THEN [success |-> FALSE, session |-> Null, votes |-> Null]
  ELSE IF ~sessionOk THEN [success |-> FALSE, session |-> Null, votes |-> Some(found)]
  ELSE IF rows = {} THEN [success |-> TRUE, session |-> Null, votes |-> Some(found)]
  ELSE [success |-> TRUE, session |-> Some(CHOOSE x \in rows : TRUE), votes |-> Some(found)]

\* getSessionVotes, from the outcome of its two queries: found are the rows of
\* the votes query and rows those of the session query, which is issued only
\* when the votes query succeeded
getSessionVotes(votesOk, found, sessionOk, rows) ==
  IF ~votesOk THEN [success |-> FALSE, session |-> Null, votes |-> Null]
  ELSE IF ~sessionOk THEN [success |-> FALSE, session |-> Null, votes |-> Null]
  ELSE IF rows = {} THEN [success |-> TRUE, session |-> Null, votes |-> Some(found)]
  ELSE [success |-> TRUE, session |-> Some(CHOOSE x \in rows : TRUE), votes |-> Some(found)]

\* getLatestSessionForChannel, second query after a lookup by cached id that
\* failed or found no row: the newest session of the channel
QueryByChannel(r) ==
  \E storeOk \in BOOLEAN :
    Continue(r, "r_bychan",
             [loc[r] EXCEPT !.stale = loc[r].ok,
                            !.ok = storeOk,
                            !.rows = IF storeOk THEN LatestByChannel(req[r].channel) ELSE {}])

\* router.post('/commands') with /poker-reveal: handlePokerRevealCommand up to
\* the first query of getLatestSessionForChannel, by cached id if there is one
RevealFrom(r, teams) ==
  /\ Takes(r) /\ nreq < MaxCommands
  /\ \E channel \in Channels, url \in UrlInputs, team \in teams :
     \E t \in TokenOutcomes(team) :
       LET rq == [NoReq EXCEPT !.kind = "reveal", !.user = "U1", !.channel = channel,
                               !.url = url, !.team = team]
           l == [InitLoc EXCEPT !.tok = t.tok, !.look = t.look,
                                !.ioBeforeAck = (team # NoTeam)]
           cached == latestSessionPerChannel[channel]
       IN
       IF t.tok.thrown
       THEN CommandCatch(r, rq, l)
       ELSE \E storeOk \in BOOLEAN :
              Start(r, rq, IF cached # NoSession THEN "r_byid" ELSE "r_bychan",
                    [l EXCEPT !.seen = Settled(channel),
                              !.cold = (cached = NoSession),
                              !.ok = storeOk,
                              !.rows = IF ~storeOk THEN {}
                                       ELSE IF cached # NoSession THEN SessionsById(cached)
                                       ELSE LatestByChannel(channel)],
                    <<Ack>>, <<>>)
  /\ nreq' = nreq + 1
  /\ UNCHANGED <<sessions, votes, installations, latestSessionPerChannel, now,
                 lastReturned, lastUpsert, voteCreatedAt>>

\* a /poker-reveal of any workspace
ReceiveReveal(r) == RevealFrom(r, Teams \cup {NoTeam})

\* a /poker-reveal without team_id
ReceiveRevealDefault(r) == RevealFrom(r, {NoTeam})

\* a lookup by cached id whose empty result is returned as "no session"
RevealAfterByIdStrict(r) ==
  /\ pc[r] = "r_byid"
  /\ IF loc[r].ok
     THEN IF loc[r].rows # {}
          THEN FetchVotes(r, loc[r].rows)
          ELSE Finish(r, req[r], [loc[r] EXCEPT !.latest = "null"],
                      <<>>, Posted(req[r], TextMsg(NoActiveSession)))
     ELSE QueryByChannel(r)
  /\ UNCHANGED <<sessions, votes, installations, latestSessionPerChannel, now, nreq,
                 lastReturned, lastUpsert, voteCreatedAt>>

\* getLatestSessionForChannel after the lookup by cached id: the session when
\* a row came back, else the query by channel
RevealAfterById(r) ==
  /\ pc[r] = "r_byid"
  /\ IF loc[r].ok /\ loc[r].rows # {}
     THEN FetchVotes(r, loc[r].rows)
     ELSE QueryByChannel(r)
  /\ UNCHANGED <<sessions, votes, installations, latestSessionPerChannel, now, nreq,
                 lastReturned, lastUpsert, voteCreatedAt>>

\* getLatestSessionForChannel after the query by channel: a failure and an
\* empty result both end the reveal with the "no active session" message
RevealAfterByChannel(r) ==
  /\ pc[r] = "r_bychan"
  /\ IF ~loc[r].ok \/ loc[r].rows = {}
     THEN /\ Finish(r, req[r],
                    [loc[r] EXCEPT !.latest = IF loc[r].ok THEN "null" ELSE "failed"],
                    <<>>, Posted(req[r], TextMsg(NoActiveSession)))
          /\ UNCHANGED latestSessionPerChannel
     ELSE /\ latestSessionPerChannel' =
                [latestSessionPerChannel EXCEPT
                    ![req[r].channel] = (CHOOSE s \in loc[r].rows : TRUE).id]
          /\ FetchVotes(r, loc[r].rows)
  /\ UNCHANGED <<sessions, votes, installations, now, nreq, lastReturned, lastUpsert, voteCreatedAt>>

\* a reveal that closes the round: the votes it has shown are deleted
RevealAfterVotesClosing(r) ==
  /\ pc[r] = "r_votes"
  /\ \E sessionOk \in BOOLEAN :
       LET s == CHOOSE x \in loc[r].session : TRUE
           res == getSessionVotes(loc[r].ok, loc[r].votes, sessionOk,
                                  IF sessionOk THEN SessionsById(s.id) ELSE {})
           votesSuccess == res.success
           fetched == IF res.votes = Null THEN {} ELSE res.votes[1]
       IN
       /\ ~loc[r].ok => sessionOk
       /\ votes' = votes \ fetched
       /\ Finish(r, req[r],
                 [loc[r] EXCEPT !.votes = fetched, !.result = res,
                                !.fetch = IF ~votesSuccess THEN "failed"
                                          ELSE IF fetched = {} THEN "empty" ELSE "votes"],
                 <<>>, Posted(req[r], RevealMessage(votesSuccess, fetched, s.issue, s.id)))
  /\ UNCHANGED <<sessions, installations, latestSessionPerChannel, now, nreq,
                 lastReturned, lastUpsert, voteCreatedAt>>

\* handlePokerRevealCommand after the votes query of getSessionVotes: on
\* success the session row is read, and that query may fail too; then the
\* delayed message of the reveal
RevealAfterVotes(r) ==
  /\ pc[r] = "r_votes"
  /\ \E sessionOk \in BOOLEAN :
       LET s == CHOOSE x \in loc[r].session : TRUE
           res == getSessionVotes(loc[r].ok, loc[r].votes, sessionOk,
                                  IF sessionOk THEN SessionsById(s.id) ELSE {})
           votesSuccess == res.success
           fetched == IF res.votes = Null THEN {} ELSE res.votes[1]
       IN
       /\ ~loc[r].ok => sessionOk
       /\ Finish(r, req[r],
                 [loc[r] EXCEPT !.votes = fetched, !.result = res,
                                !.fetch = IF ~votesSuccess THEN "failed"
                                          ELSE IF fetched = {} THEN "empty" ELSE "votes"],
                 <<>>, Posted(req[r], RevealMessage(votesSuccess, fetched, s.issue, s.id)))
  /\ UNCHANGED <<sessions, votes, installations, latestSessionPerChannel, now, nreq,
                 lastReturned, lastUpsert, voteCreatedAt>>

\* ------------------------------------------------------------- POST /actions
\* what the framework answers when an exception leaves a handler
CatchReplyUnhandled == Reply(500, "Internal Server Error", 0)

\* the reply of the catch block of handleInteractiveActions
CatchReply == Reply(200, ActionError, 0)

\* the validation with the payload parsed under its own guard: an
\* unparseable payload is answered like an unparseable action value
ValidateActionGuarded(shape) ==
  CASE shape = "missing" -> [thrown |-> FALSE, text |-> MissingPayload]
    [] shape = "badjson" -> [thrown |-> FALSE, text |-> InvalidVoteData]
    [] shape = "badtype" -> [thrown |-> FALSE, text |-> UnsupportedType]
    [] shape = "noactions" -> [thrown |-> FALSE, text |-> NoActionsFound]
    [] shape = "notvote" -> [thrown |-> FALSE, text |-> UnsupportedAction]
    [] shape = "noid" -> [thrown |-> TRUE, text |-> ""]
    [] shape = "badvalue" -> [thrown |-> FALSE, text |-> InvalidVoteData]
    [] OTHER -> [thrown |-> FALSE, text |-> ""]

\* handleInteractiveActions up to the extraction of the vote data: the reply
\* of a rejected payload, thrown when JSON.parse(req.body.payload) throws or
\* action.action_id.startsWith is called on a block action without action_id,
\* and an empty text for a valid vote action of either payload type
ValidateAction(shape) ==
  CASE shape = "missing" -> [thrown |-> FALSE, text |-> MissingPayload]
    [] shape = "badjson" -> [thrown |-> TRUE, text |-> ""]
    [] shape = "badtype" -> [thrown |-> FALSE, text |-> UnsupportedType]
    [] shape = "noactions" -> [thrown |-> FALSE, text |-> NoActionsFound]
    [] shape = "notvote" -> [thrown |-> FALSE, text |-> UnsupportedAction]
    [] shape = "noid" -> [thrown |-> TRUE, text |-> ""]
    [] shape = "badvalue" -> [thrown |-> FALSE, text |-> InvalidVoteData]
    [] OTHER -> [thrown |-> FALSE, text |-> ""]

\* hasUserVoted: a read-only existence check on the votes of the pair; a
\* failed read reports hasVoted false with success false
hasUserVoted(sessionId, userId, storeOk) ==
  [success |-> storeOk,
   hasVoted |-> storeOk /\ \E v \in votes : v.session_id = sessionId /\ v.user_id = userId]

ActionInFlight(q) == pc[q] \in {"a_check", "a_save", "a_react"}

\* the handler asking hasUserVoted about the user name in place of the user id
ActionFromByName(r, shapes, users) ==
  /\ Takes(r) /\ nreq < MaxActions
  /\ \E shape \in shapes :
       LET v == ValidateAction(shape) IN
       IF v.thrown \/ v.text # ""
       THEN Start(r, [NoReq EXCEPT !.kind = "action", !.shape = shape], "done", InitLoc,
                  <<IF v.thrown THEN CatchReply ELSE Reply(200, v.text, 0)>>, <<>>)
       ELSE \E user \in users, name \in Names, sessionId \in VoteTargets,
               vote \in VoteInputs, storeOk \in BOOLEAN :
              LET check == hasUserVoted(sessionId, name, storeOk)
                  same == {q \in Slots \ {r} : ActionInFlight(q)
                                                 /\ req[q].sessionId = sessionId
                                                 /\ req[q].user = user}
                  revealed == /\ \E c \in Channels : latestSessionPerChannel[c] = sessionId
                              /\ \A q \in Slots : req[q].kind = "reveal" => pc[q] = "done"
                  rq == [NoReq EXCEPT !.kind = "action", !.shape = "vote",
                                      !.user = user, !.name = name,
                                      !.sessionId = sessionId, !.vote = vote]
              IN
              /\ pc' = [pc EXCEPT ![r] = "a_check"]
              /\ req' = [req EXCEPT ![r] = rq]
              /\ http' = [http EXCEPT ![r] = <<>>]
              /\ delayed' = [delayed EXCEPT ![r] = <<>>]
              /\ loc' = [q \in Slots |->
                           IF q = r
                           THEN [InitLoc EXCEPT !.checkSuccess = check.success,
                                                !.hasVoted = check.hasVoted,
                                                !.overlap = (same # {}),
                                                !.afterReveal = revealed]
                           ELSE IF q \in same THEN [loc[q] EXCEPT !.overlap = TRUE]
                           ELSE loc[q]]
  /\ nreq' = nreq + 1
  /\ UNCHANGED <<sessions, votes, installations, latestSessionPerChannel, now,
                 lastReturned, lastUpsert, voteCreatedAt>>

\* router.post('/actions') and handleInteractiveActions up to the call of
\* hasUserVoted.  Both payload types leave the same locals, so a valid
\* request is kept under one shape.  The channel, the message timestamp and
\* the team id of the payload are not used before saveVote has returned:
\* they are drawn when the handler uses them.  The payload has one of the
\* shapes and, when it is a vote, comes from one of the users.
ActionFrom(r, shapes, users) ==
  /\ Takes(r) /\ nreq < MaxActions
  /\ \E shape \in shapes :
       LET v == ValidateAction(shape) IN
       IF v.thrown \/ v.text # ""
       THEN Start(r, [NoReq EXCEPT !.kind = "action", !.shape = shape], "done", InitLoc,
                  <<IF v.thrown THEN CatchReply ELSE Reply(200, v.text, 0)>>, <<>>)
       ELSE \E user \in users, name \in Names, sessionId \in VoteTargets,
               vote \in VoteInputs, storeOk \in BOOLEAN :
              LET check == hasUserVoted(sessionId, user, storeOk)
                  same == {q \in Slots \ {r} : ActionInFlight(q)
                                                 /\ req[q].sessionId = sessionId
                                                 /\ req[q].user = user}
                  revealed == /\ \E c \in Channels : latestSessionPerChannel[c] = sessionId
                              /\ \A q \in Slots : req[q].kind = "reveal" => pc[q] = "done"
                  rq == [NoReq EXCEPT !.kind = "action", !.shape = "vote",
                                      !.user = user, !.name = name,
                                      !.sessionId = sessionId, !.vote = vote]
              IN
              /\ pc' = [pc EXCEPT ![r] = "a_check"]
              /\ req' = [req EXCEPT ![r] = rq]
              /\ http' = [http EXCEPT ![r] = <<>>]
              /\ delayed' = [delayed EXCEPT ![r] = <<>>]
              /\ loc' = [q \in Slots |->
                           IF q = r
                           THEN [InitLoc EXCEPT !.checkSuccess = check.success,
                                                !.hasVoted = check.hasVoted,
                                                !.overlap = (same # {}),
                                                !.afterReveal = revealed]
                           ELSE IF q \in same THEN [loc[q] EXCEPT !.overlap = TRUE]
                           ELSE loc[q]]
  /\ nreq' = nreq + 1
  /\ UNCHANGED <<sessions, votes, installations, latestSessionPerChannel, now,
                 lastReturned, lastUpsert, voteCreatedAt>>

\* any request to /actions
ReceiveAction(r) == ActionFrom(r, Shapes, Users)

\* a well-formed vote action of user U1
ReceiveVote(r) == ActionFrom(r, ValidShapes, {"U1"})

\* a vote action of user U1 from a Block Kit message, received while no other
\* vote action is being handled
ReceiveVoteAlone(r) ==
  /\ \A q \in Slots : ~ActionInFlight(q)
  /\ ActionFrom(r, {"block"}, {"U1"})

\* saveVote: the upsert of the vote row
ActionAfterCheck(r) ==
  /\ pc[r] = "a_check"
  /\ \E storeOk \in BOOLEAN :
       LET row == VoteRow(req[r].sessionId, req[r].user, req[r].vote, req[r].name)
           accepted == storeOk /\ UpsertAccepted(req[r].sessionId)
       IN
       /\ votes' = IF accepted THEN Upsert(votes, row) ELSE votes
       /\ lastUpsert' = IF accepted
                        THEN [lastUpsert EXCEPT ![<<req[r].sessionId, req[r].user>>] = {row}]
                        ELSE lastUpsert
       /\ voteCreatedAt' =
            IF accepted /\ voteCreatedAt[<<req[r].sessionId, req[r].user>>] = 0
            THEN [voteCreatedAt EXCEPT ![<<req[r].sessionId, req[r].user>>] = now]
            ELSE voteCreatedAt
       /\ Continue(r, "a_save",
                   [loc[r] EXCEPT
                      !.ok = accepted,
                      !.saveIssued = TRUE,
                      !.hadRow = \E w \in votes : w.session_id = req[r].sessionId
                                                  /\ w.user_id = req[r].user])
  /\ UNCHANGED <<sessions, installations, latestSessionPerChannel, now, nreq,
                 lastReturned>>

\* the confirmation: updated when the prior-vote check succeeded and found a vote
Confirmation(r) ==
  Reply(200, IF loc[r].checkSuccess /\ loc[r].hasVoted THEN Updated ELSE Recorded,
        req[r].vote)

\* the handler without the test of saveVote's success: a failed save is
\* answered like a successful one
ActionAfterSaveUnchecked(r) ==
  /\ pc[r] = "a_save"
  /\ \E ts \in BOOLEAN, team \in Teams :
       LET rq == [req[r] EXCEPT !.ts = ts, !.team = IF ts THEN team ELSE NoTeam] IN
       IF ts
       THEN \E t \in TokenOutcomes(team) :
              LET l == [loc[r] EXCEPT !.saved = loc[r].ok, !.tok = t.tok, !.look = t.look] IN
              IF t.tok.thrown
              THEN Finish(r, rq, l, <<CatchReply>>, <<>>)
              ELSE \E calls \in 1..MaxReactions :
                     Finish(r, rq, [l EXCEPT !.reactions = calls], <<Confirmation(r)>>, <<>>)
       ELSE Finish(r, rq, [loc[r] EXCEPT !.saved = loc[r].ok], <<Confirmation(r)>>, <<>>)
  /\ UNCHANGED <<sessions, votes, installations, latestSessionPerChannel, now, nreq,
                 lastReturned, lastUpsert, voteCreatedAt>>

\* handleInteractiveActions after saveVote: the error reply when it failed;
\* else, with a channel and a message timestamp, getBotToken (whose exception
\* goes to the catch block) and addReaction, which calls reactions.add again
\* as long as the answer is already_reacted and returns its success or
\* failure without throwing; the handler does not look at what it returns and
\* sends the confirmation
ActionAfterSave(r) ==
  /\ pc[r] = "a_save"
  /\ IF ~loc[r].ok
     THEN Finish(r, req[r], loc[r], <<Reply(200, SaveError, 0)>>, <<>>)
     ELSE \E ts \in BOOLEAN, team \in Teams :
       LET rq == [req[r] EXCEPT !.ts = ts, !.team = IF ts THEN team ELSE NoTeam] IN
       IF ts
       THEN \E t \in TokenOutcomes(team) :
              LET l == [loc[r] EXCEPT !.saved = TRUE, !.tok = t.tok, !.look = t.look] IN
              IF t.tok.thrown
              THEN Finish(r, rq, l, <<CatchReply>>, <<>>)
              ELSE \E calls \in 1..MaxReactions :
                     Finish(r, rq, [l EXCEPT !.reactions = calls], <<Confirmation(r)>>, <<>>)
       ELSE Finish(r, rq, [loc[r] EXCEPT !.saved = TRUE], <<Confirmation(r)>>, <<>>)
  /\ UNCHANGED <<sessions, votes, installations, latestSessionPerChannel, now, nreq,
                 lastReturned, lastUpsert, voteCreatedAt>>

\* --------------------------------------------------- addReaction, by call
\* the pool of emoji names of utils/emojiList.json
voteEmojis == {"tada", "rocket"}

\* what a reactions.add call can come to: ok only for an emoji that is not on
\* the message yet, already_reacted only for one that is; the other errors of
\* the API and a failure of the call itself at any time
ReactionAnswers(reaction, on) ==
  (IF reaction \in on THEN {"already_reacted"} ELSE {"ok"})
    \cup {"not_in_channel", "missing_scope", "other_error", "exception"}

\* handleInteractiveActions after a successful saveVote of a vote whose
\* payload names channel and message, when the token lookup does not throw:
\* addReaction is called without reaction, takes getRandomEmoji() and posts
\* to reactions.add; the message may carry any emojis of the bot already
ReactionFrom(r) ==
  /\ pc[r] = "a_save" /\ loc[r].ok
  /\ \E team \in Teams, on \in SUBSET voteEmojis, emoji \in voteEmojis :
     \E t \in TokenOutcomes(team) :
       /\ ~t.tok.thrown
       /\ pc' = [pc EXCEPT ![r] = "a_react"]
       /\ req' = [req EXCEPT ![r].ts = TRUE, ![r].team = team]
       /\ loc' = [loc EXCEPT ![r].saved = TRUE, ![r].tok = t.tok, ![r].look = t.look,
                             ![r].reaction = emoji, ![r].onMessage = on,
                             ![r].reactions = 1]
  /\ UNCHANGED <<sessions, votes, installations, latestSessionPerChannel, now, nreq,
                 http, delayed, lastReturned, lastUpsert, voteCreatedAt>>

\* addReaction after the answer already_reacted: it calls itself with
\* getRandomEmoji(), here emoji, and posts again (calls are counted up to
\* MaxReactions)
AddReactionRetry(r, emoji) ==
  /\ pc[r] = "a_react"
  /\ "already_reacted" \in ReactionAnswers(loc[r].reaction, loc[r].onMessage)
  /\ Continue(r, "a_react",
              [loc[r] EXCEPT !.reaction = emoji, !.answer = "already_reacted",
                             !.reactions = IF @ < MaxReactions THEN @ + 1 ELSE @])
  /\ UNCHANGED <<sessions, votes, installations, latestSessionPerChannel, now, nreq,
                 lastReturned, lastUpsert, voteCreatedAt>>

\* addReaction after any other answer: it returns success or failure, and the
\* handler, that ignores what it returns, sends the confirmation
AddReactionReturn(r) ==
  /\ pc[r] = "a_react"
  /\ \E answer \in ReactionAnswers(loc[r].reaction, loc[r].onMessage) \ {"already_reacted"} :
       Finish(r, req[r],
              [loc[r] EXCEPT !.answer = answer,
                             !.onMessage = IF answer = "ok" THEN @ \cup {loc[r].reaction} ELSE @],
              <<Confirmation(r)>>, <<>>)
  /\ UNCHANGED <<sessions, votes, installations, latestSessionPerChannel, now, nreq,
                 lastReturned, lastUpsert, voteCreatedAt>>

\* ------------------------------------------------------------ installation
\* the paths the application serves: the routers mounted by routes/index.js,
\* that is itself mounted at the root
Routes ==
  {<<"GET", "/">>, <<"POST", "/slack/verify">>, <<"POST", "/slack/commands">>,
   <<"POST", "/slack/actions">>, <<"POST", "/admin/cleanup">>, <<"GET", "/admin/cleanup">>,
   <<"GET", "/install">>, <<"GET", "/oauth/callback">>, <<"GET", "/oauth/success">>}

\* res.redirect('/slack/oauth/success')
SuccessRedirect == "/slack/oauth/success"

OAuthError == "OAuth Error"
MissingCode == "Missing authorization code"
ExchangeFailed == "Token exchange failed"
SaveFailed == "Failed to save installation"
OAuthInternal == "Internal server error during OAuth"
SuccessPage == "Planning Poker Installed Successfully!"
NotFound == "Cannot GET"

\* the bot token that oauth.v2.access hands out
IssuedToken == "xoxb-issued"

\* what the application answers to GET path: the page of oauthSuccess on its
\* route, the 404 of the framework on a path that no route serves
Get(path) ==
  IF <<"GET", path>> \in Routes /\ path = "/oauth/success"
  THEN Reply(200, SuccessPage, 0)
  ELSE Reply(404, NotFound, 0)

\* GET /oauth/callback: handleOAuthCallback up to the upsert of
\* saveTeamInstallation.  The query has an error, no code, or a code; the
\* exchange of the code answers ok or not ok, or the post throws
ReceiveOAuthCallback(r) ==
  /\ Takes(r) /\ nreq < MaxCommands
  /\ \E query \in {"error", "nocode", "code"}, exchange \in {"ok", "failed", "thrown"},
        team \in Teams, storeOk \in BOOLEAN :
       LET rq == [NoReq EXCEPT !.kind = "oauth", !.shape = query,
                               !.team = IF query = "code" /\ exchange = "ok"
                                        THEN team ELSE NoTeam]
       IN
       IF query = "error"
       THEN Start(r, rq, "done", InitLoc, <<Reply(400, OAuthError, 0)>>, <<>>)
            /\ UNCHANGED installations
       ELSE IF query = "nocode"
       THEN Start(r, rq, "done", InitLoc, <<Reply(400, MissingCode, 0)>>, <<>>)
            /\ UNCHANGED installations
       ELSE IF exchange = "failed"
       THEN Start(r, rq, "done", InitLoc, <<Reply(400, ExchangeFailed, 0)>>, <<>>)
            /\ UNCHANGED installations
       ELSE IF exchange = "thrown"
       THEN Start(r, rq, "done", InitLoc, <<Reply(500, OAuthInternal, 0)>>, <<>>)
            /\ UNCHANGED installations
       ELSE /\ installations' =
                 IF storeOk
                 THEN {i \in installations : i.team_id # team}
                        \cup {[team_id |-> team, bot_token |-> IssuedToken]}
                 ELSE installations
            /\ Start(r, rq, "o_save", [InitLoc EXCEPT !.ok = storeOk], <<>>, <<>>)
  /\ nreq' = nreq + 1
  /\ UNCHANGED <<sessions, votes, latestSessionPerChannel, now, lastReturned, lastUpsert, voteCreatedAt>>

\* handleOAuthCallback after saveTeamInstallation: the 500 when it failed,
\* else the redirect
OAuthAfterSave(r) ==
  /\ pc[r] = "o_save"
  /\ IF ~loc[r].ok
     THEN Finish(r, req[r], loc[r], <<Reply(500, SaveFailed, 0)>>, <<>>)
     ELSE /\ pc' = [pc EXCEPT ![r] = "o_redirect"]
          /\ http' = [http EXCEPT ![r] = <<Reply(302, SuccessRedirect, 0)>>]
          /\ UNCHANGED <<req, loc, delayed>>
  /\ UNCHANGED <<sessions, votes, installations, latestSessionPerChannel, now, nreq,
                 lastReturned, lastUpsert, voteCreatedAt>>

\* the browser of the installer follows the redirect
FollowRedirect(r) ==
  /\ pc[r] = "o_redirect"
  /\ Finish(r, req[r], loc[r], <<Get(http[r][1].text)>>, <<>>)
  /\ UNCHANGED <<sessions, votes, installations, latestSessionPerChannel, now, nreq,
                 lastReturned, lastUpsert, voteCreatedAt>>

\* --------------------------------------------------------- process restart
\* the process is killed and started again: the cache and every running
\* handler are lost, the tables stay
Restart ==
  /\ latestSessionPerChannel' = [c \in Channels |-> NoSession]
  /\ req' = [r \in Slots |-> NoReq]
  /\ pc' = [r \in Slots |-> "idle"]
  /\ loc' = [r \in Slots |-> InitLoc]
  /\ http' = [r \in Slots |-> <<>>]
  /\ delayed' = [r \in Slots |-> <<>>]
  /\ UNCHANGED <<sessions, votes, installations, now, nreq, lastReturned, lastUpsert, voteCreatedAt>>

\* --------------------------------------------------------- retention sweep
\* the retention period, in clock ticks
RetentionTicks == 1

\* select id from sessions where created_at < cutoff
OldSessions == {s \in sessions : s.created_at < now - RetentionTicks}

\* cleanupOldSessions (and the same three statements of cleanupOldData) up to
\* the select of the old sessions; the job is started by the scheduler and is
\* no request
StartSweep(r) ==
  /\ Takes(r)
  /\ \E storeOk \in BOOLEAN :
       Start(r, [NoReq EXCEPT !.kind = "sweep"], "s_select",
             [InitLoc EXCEPT !.ok = storeOk, !.rows = IF storeOk THEN OldSessions ELSE {}],
             <<>>, <<>>)
  /\ UNCHANGED <<sessions, votes, installations, latestSessionPerChannel, now, nreq,
                 lastReturned, lastUpsert, voteCreatedAt>>

\* after the select: nothing to do, or the delete of the votes of the old
\* sessions
SweepAfterSelect(r) ==
  /\ pc[r] = "s_select"
  /\ IF ~loc[r].ok \/ loc[r].rows = {}
     THEN /\ Finish(r, req[r],
                    [loc[r] EXCEPT !.swept = IF loc[r].ok THEN "nothing" ELSE "failed"],
                    <<>>, <<>>)
          /\ UNCHANGED <<votes, lastUpsert, voteCreatedAt>>
     ELSE \E storeOk \in BOOLEAN :
            LET ids == {s.id : s \in loc[r].rows} IN
            /\ votes' = IF storeOk THEN {v \in votes : v.session_id \notin ids} ELSE votes
            /\ lastUpsert' = IF storeOk
                             THEN [p \in DOMAIN lastUpsert |->
                                     IF p[1] \in ids THEN {} ELSE lastUpsert[p]]
                             ELSE lastUpsert
            /\ voteCreatedAt' = IF storeOk
                                THEN [p \in DOMAIN voteCreatedAt |->
                                        IF p[1] \in ids THEN 0 ELSE voteCreatedAt[p]]
                                ELSE voteCreatedAt
            /\ Continue(r, "s_votes", [loc[r] EXCEPT !.ok = storeOk])
  /\ UNCHANGED <<sessions, installations, latestSessionPerChannel, now, nreq, lastReturned>>

\* after the delete of the votes: the delete of the old sessions, which the
\* store refuses while a vote row references one of them
SweepAfterVotes(r) ==
  /\ pc[r] = "s_votes"
  /\ IF ~loc[r].ok
     THEN /\ Finish(r, req[r], [loc[r] EXCEPT !.swept = "failed"], <<>>, <<>>)
          /\ UNCHANGED sessions
     ELSE \E storeOk \in BOOLEAN :
            LET ids == {s.id : s \in loc[r].rows}
                accepted == storeOk /\ \A v \in votes : v.session_id \notin ids
            IN
            /\ sessions' = IF accepted THEN {s \in sessions : s.id \notin ids} ELSE sessions
            /\ Continue(r, "s_sessions", [loc[r] EXCEPT !.ok = accepted])
  /\ UNCHANGED <<votes, installations, latestSessionPerChannel, now, nreq,
                 lastReturned, lastUpsert, voteCreatedAt>>

\* after the delete of the sessions: the result
SweepAfterSessions(r) ==
  /\ pc[r] = "s_sessions"
  /\ Finish(r, req[r], [loc[r] EXCEPT !.swept = IF loc[r].ok THEN "done" ELSE "failed"],
            <<>>, <<>>)
  /\ UNCHANGED <<sessions, votes, installations, latestSessionPerChannel, now, nreq,
                 lastReturned, lastUpsert, voteCreatedAt>>

\* ------------------------------------------------- jobs/dataRetention.js
\* the votes that remain when those of del are deleted, with the columns and
\* the history of the deleted rows cleared
DeleteVotes(r, at, ok, del) ==
  /\ votes' = votes \ del
  /\ lastUpsert' = [p \in DOMAIN lastUpsert |->
                      IF \E v \in del : v.session_id = p[1] /\ v.user_id = p[2]
                      THEN {} ELSE lastUpsert[p]]
  /\ voteCreatedAt' = [p \in DOMAIN voteCreatedAt |->
                         IF \E v \in del : v.session_id = p[1] /\ v.user_id = p[2]
                         THEN 0 ELSE voteCreatedAt[p]]
  /\ Continue(r, at, [loc[r] EXCEPT !.ok = ok])

\* cleanupOldData, run by the job runner: the cutoff date and the select of
\* the sessions older than it
cleanupOldData(r) ==
  /\ Takes(r)
  /\ \E storeOk \in BOOLEAN :
       LET cutoffDate == now - RetentionTicks IN
       Start(r, [NoReq EXCEPT !.kind = "retention"], "d_select",
             [InitLoc EXCEPT !.ok = storeOk, !.cutoff = cutoffDate,
                             !.rows = IF storeOk
                                      THEN {s \in sessions : s.created_at < cutoffDate}
                                      ELSE {}],
             <<>>, <<>>)
  /\ UNCHANGED <<sessions, votes, installations, latestSessionPerChannel, now, nreq,
                 lastReturned, lastUpsert, voteCreatedAt>>

\* after the select: failure, nothing to delete, or the delete of the votes of
\* the old sessions
RetentionAfterSelect(r) ==
  /\ pc[r] = "d_select"
  /\ IF ~loc[r].ok \/ loc[r].rows = {}
     THEN /\ Finish(r, req[r],
                    [loc[r] EXCEPT !.swept = IF loc[r].ok THEN "nothing" ELSE "failed"],
                    <<>>, <<>>)
          /\ UNCHANGED <<votes, lastUpsert, voteCreatedAt>>
     ELSE \E storeOk \in BOOLEAN :
            LET oldSessionIds == {s.id : s \in loc[r].rows} IN
            DeleteVotes(r, "d_votes", storeOk,
                        IF storeOk THEN {v \in votes : v.session_id \in oldSessionIds}
                        ELSE {})
  /\ UNCHANGED <<sessions, installations, latestSessionPerChannel, now, nreq, lastReturned>>

\* after the delete of the votes: failure, or the delete of the old sessions,
\* which the store refuses while a vote row references one of them
RetentionAfterVotes(r) ==
  /\ pc[r] = "d_votes"
  /\ IF ~loc[r].ok
     THEN /\ Finish(r, req[r], [loc[r] EXCEPT !.swept = "failed"], <<>>, <<>>)
          /\ UNCHANGED sessions
     ELSE \E storeOk \in BOOLEAN :
            LET oldSessionIds == {s.id : s \in loc[r].rows}
                accepted == storeOk /\ \A v \in votes : v.session_id \notin oldSessionIds
            IN
            /\ sessions' = IF accepted
                           THEN {s \in sessions : s.id \notin oldSessionIds}
                           ELSE sessions
            /\ Continue(r, "d_sessions", [loc[r] EXCEPT !.ok = accepted])
  /\ UNCHANGED <<votes, installations, latestSessionPerChannel, now, nreq,
                 lastReturned, lastUpsert, voteCreatedAt>>

\* after the delete of the sessions: failure, or the delete of the votes
\* created before the cutoff date
RetentionAfterSessions(r) ==
  /\ pc[r] = "d_sessions"
  /\ IF ~loc[r].ok
     THEN /\ Finish(r, req[r], [loc[r] EXCEPT !.swept = "failed"], <<>>, <<>>)
          /\ UNCHANGED <<votes, lastUpsert, voteCreatedAt>>
     ELSE \E storeOk \in BOOLEAN :
            DeleteVotes(r, "d_orphans", storeOk,
                        IF storeOk
                        THEN {v \in votes :
                                voteCreatedAt[<<v.session_id, v.user_id>>] < loc[r].cutoff}
                        ELSE {})
  /\ UNCHANGED <<sessions, installations, latestSessionPerChannel, now, nreq, lastReturned>>

\* a job for which the failure of its last delete is a failure
RetentionAfterOrphansCritical(r) ==
  /\ pc[r] = "d_orphans"
  /\ Finish(r, req[r],
            [loc[r] EXCEPT !.swept = IF loc[r].ok THEN "done" ELSE "failed",
                           !.orphans = IF loc[r].ok THEN "deleted" ELSE "failed"],
            <<>>, <<>>)
  /\ UNCHANGED <<sessions, votes, installations, latestSessionPerChannel, now, nreq,
                 lastReturned, lastUpsert, voteCreatedAt>>

\* after the delete of the votes older than the cutoff: its error is logged
\* only, the result is success
RetentionAfterOrphans(r) ==
  /\ pc[r] = "d_orphans"
  /\ Finish(r, req[r],
            [loc[r] EXCEPT !.swept = "done",
                           !.orphans = IF loc[r].ok THEN "deleted" ELSE "failed"],
            <<>>, <<>>)
  /\ UNCHANGED <<sessions, votes, installations, latestSessionPerChannel, now, nreq,
                 lastReturned, lastUpsert, voteCreatedAt>>

\* ------------------------------------------------------------ specification
Next ==
  \/ Tick
  \/ \E r \in Slots : ReceiveOther(r)
  \/ \E r \in Slots : ReceivePoker(r)
  \/ \E r \in Slots : PokerAfterInsert(r)
  \/ \E r \in Slots : ReceiveReveal(r)
  \/ \E r \in Slots : RevealAfterById(r)
  \/ \E r \in Slots : RevealAfterByChannel(r)
  \/ \E r \in Slots : RevealAfterVotes(r)
  \/ \E r \in Slots : ReceiveAction(r)
  \/ \E r \in Slots : ActionAfterCheck(r)
  \/ \E r \in Slots : ActionAfterSave(r)
  \/ Restart
  \/ \E r \in Slots : StartSweep(r)
  \/ \E r \in Slots : SweepAfterSelect(r)
  \/ \E r \in Slots : SweepAfterVotes(r)
  \/ \E r \in Slots : SweepAfterSessions(r)
  \/ \E r \in Slots : cleanupOldData(r)
  \/ \E r \in Slots : RetentionAfterSelect(r)
  \/ \E r \in Slots : RetentionAfterVotes(r)
  \/ \E r \in Slots : RetentionAfterSessions(r)
  \/ \E r \in Slots : RetentionAfterOrphans(r)
  \/ \E r \in Slots : ReceiveOAuthCallback(r)
  \/ \E r \in Slots : OAuthAfterSave(r)
  \/ \E r \in Slots : FollowRedirect(r)

Spec == Init /\ [][Next]_vars

NextCommands ==
  \/ Tick
  \/ \E r \in Slots : ReceiveOther(r)
  \/ \E r \in Slots : ReceivePoker(r)
  \/ \E r \in Slots : PokerAfterInsert(r)
  \/ \E r \in Slots : ReceiveReveal(r)
  \/ \E r \in Slots : RevealAfterById(r)
  \/ \E r \in Slots : RevealAfterByChannel(r)
  \/ \E r \in Slots : RevealAfterVotes(r)

SpecCommands == Init /\ [][NextCommands]_vars

\* /poker-reveal requests over the sessions and votes an earlier run left
NextReveal ==
  \/ \E r \in Slots : ReceiveReveal(r)
  \/ \E r \in Slots : RevealAfterById(r)
  \/ \E r \in Slots : RevealAfterByChannel(r)
  \/ \E r \in Slots : RevealAfterVotes(r)

SpecReveal == Init /\ [][NextReveal]_vars

NextActions ==
  \/ \E r \in Slots : ReceiveAction(r)
  \/ \E r \in Slots : ActionAfterCheck(r)
  \/ \E r \in Slots : ActionAfterSave(r)

SpecActions == Init /\ [][NextActions]_vars

\* commands of a workspace without team_id, over restarts of the process
NextSessions ==
  \/ Tick
  \/ Restart
  \/ \E r \in Slots : ReceivePokerDefault(r)
  \/ \E r \in Slots : PokerAfterInsert(r)
  \/ \E r \in Slots : ReceiveRevealDefault(r)
  \/ \E r \in Slots : RevealAfterById(r)
  \/ \E r \in Slots : RevealAfterByChannel(r)
  \/ \E r \in Slots : RevealAfterVotes(r)

SpecSessions == Init /\ [][NextSessions]_vars

\* vote actions, one at a time, with addReaction followed call by call
NextReaction ==
  \/ \E r \in Slots : ReceiveVoteAlone(r)
  \/ \E r \in Slots : ActionAfterCheck(r)
  \/ \E r \in Slots : ActionAfterSave(r)
  \/ \E r \in Slots : ReactionFrom(r)
  \/ \E r \in Slots : \E emoji \in voteEmojis : AddReactionRetry(r, emoji)
  \/ \E r \in Slots : AddReactionReturn(r)

SpecReaction == Init /\ [][NextReaction]_vars

\* every handler goes on when the call it awaits has been answered, and the
\* random choice of getRandomEmoji does not leave out an emoji for ever
FairReaction ==
  \A r \in Slots :
    /\ WF_vars(ActionAfterCheck(r))
    /\ WF_vars(ActionAfterSave(r) \/ ReactionFrom(r))
    /\ WF_vars(AddReactionReturn(r) \/ \E emoji \in voteEmojis : AddReactionRetry(r, emoji))
    /\ \A emoji \in voteEmojis : SF_vars(AddReactionRetry(r, emoji))

SpecReactionFair == Init /\ [][NextReaction]_vars /\ FairReaction

\* runs of the data retention job, one or two at a time, as the clock advances
NextDataRetention ==
  \/ Tick
  \/ \E r \in Slots : cleanupOldData(r)
  \/ \E r \in Slots : RetentionAfterSelect(r)
  \/ \E r \in Slots : RetentionAfterVotes(r)
  \/ \E r \in Slots : RetentionAfterSessions(r)
  \/ \E r \in Slots : RetentionAfterOrphans(r)

SpecDataRetention == Init /\ [][NextDataRetention]_vars

\* both slash commands of every workspace, at one instant of the clock
NextReplies ==
  \/ \E r \in Slots : ReceivePoker(r)
  \/ \E r \in Slots : PokerAfterInsert(r)
  \/ \E r \in Slots : ReceiveReveal(r)
  \/ \E r \in Slots : RevealAfterById(r)
  \/ \E r \in Slots : RevealAfterByChannel(r)
  \/ \E r \in Slots : RevealAfterVotes(r)

SpecReplies == Init /\ [][NextReplies]_vars

\* reveals and vote actions on the sessions an earlier run left
NextVoting ==
  \/ \E r \in Slots : ReceiveRevealDefault(r)
  \/ \E r \in Slots : RevealAfterById(r)
  \/ \E r \in Slots : RevealAfterByChannel(r)
  \/ \E r \in Slots : RevealAfterVotes(r)
  \/ \E r \in Slots : ReceiveVote(r)
  \/ \E r \in Slots : ActionAfterCheck(r)
  \/ \E r \in Slots : ActionAfterSave(r)

SpecVoting == Init /\ [][NextVoting]_vars

\* reveals and retention sweeps as the clock advances
NextRetention ==
  \/ Tick
  \/ \E r \in Slots : ReceiveRevealDefault(r)
  \/ \E r \in Slots : RevealAfterById(r)
  \/ \E r \in Slots : RevealAfterByChannel(r)
  \/ \E r \in Slots : RevealAfterVotes(r)
  \/ \E r \in Slots : StartSweep(r)
  \/ \E r \in Slots : SweepAfterSelect(r)
  \/ \E r \in Slots : SweepAfterVotes(r)
  \/ \E r \in Slots : SweepAfterSessions(r)

SpecRetention == Init /\ [][NextRetention]_vars

\* installations and the /poker commands of the workspaces
NextInstall ==
  \/ \E r \in Slots : ReceiveOAuthCallback(r)
  \/ \E r \in Slots : OAuthAfterSave(r)
  \/ \E r \in Slots : FollowRedirect(r)
  \/ \E r \in Slots : ReceivePoker(r)
  \/ \E r \in Slots : PokerAfterInsert(r)

SpecInstall == Init /\ [][NextInstall]_vars

\* reveals of a session that has the votes of up to two users
NextResults ==
  \/ \E r \in Slots : ReceiveRevealDefault(r)
  \/ \E r \in Slots : RevealAfterById(r)
  \/ \E r \in Slots : RevealAfterByChannel(r)
  \/ \E r \in Slots : RevealAfterVotes(r)

SpecResults == InitResults /\ [][NextResults]_vars

\* sessions created, revealed and swept as the clock advances
NextStale ==
  \/ Tick
  \/ \E r \in Slots : ReceivePokerDefault(r)
  \/ \E r \in Slots : PokerAfterInsert(r)
  \/ \E r \in Slots : ReceiveRevealDefault(r)
  \/ \E r \in Slots : RevealAfterById(r)
  \/ \E r \in Slots : RevealAfterByChannel(r)
  \/ \E r \in Slots : RevealAfterVotes(r)
  \/ \E r \in Slots : StartSweep(r)
  \/ \E r \in Slots : SweepAfterSelect(r)
  \/ \E r \in Slots : SweepAfterVotes(r)
  \/ \E r \in Slots : SweepAfterSessions(r)

SpecStale == Init /\ [][NextStale]_vars

\* ------------------------------------------------------------------ claims
IsCommand(r) == req[r].kind \in {"poker", "reveal"}
IsAction(r) == req[r].kind = "action"
RowsOf(p) == {v \in votes : v.session_id = p[1] /\ v.user_id = p[2]}

\* C1: the votes table holds at most one row per (session_id, user_id), and
\* that row is the one written by the last upsert applied for the pair,
\* whether the saveVote calls ran one after the other or interleaved.
C1_OneRowPerPair ==
  \A p \in SessionIds \X Users :
    Cardinality(RowsOf(p)) <= 1 /\ RowsOf(p) = lastUpsert[p]

\* C1 witness: a second vote of a pair, with another value and another
\* username, has been applied over the first while a vote action of the same
\* pair is still in flight.
C1_Witness ==
  \E r \in Slots : \E q \in Slots \ {r} :
    /\ pc[r] = "a_save" /\ loc[r].ok /\ loc[r].hadRow
    /\ req[r].vote = 13 /\ req[r].name = "al"
    /\ RowsOf(<<req[r].sessionId, req[r].user>>) =
         {VoteRow(req[r].sessionId, req[r].user, 13, "al")}
    /\ ActionInFlight(q) /\ req[q].user = req[r].user /\ req[q].sessionId = req[r].sessionId

\* C2: a getLatestSessionForChannel(c) that is called after the createSession
\* of S returned and that returns a session returns S, as long as S is the
\* newest session of c and the last one a createSession of c returned.
C2_LatestIsLastCreated ==
  \A r \in Slots :
    (/\ req[r].kind = "reveal"
     /\ loc[r].latest = "session"
     /\ loc[r].seen # NoSession
     /\ Settled(req[r].channel) = loc[r].seen)
    => loc[r].session = SessionsById(loc[r].seen)

\* C3: no /poker or /poker-reveal request issues store or network I/O before
\* its acknowledgment; the installation lookup of getBotToken is store I/O.
C3_AckBeforeIO ==
  \A r \in Slots : IsCommand(r) => ~loc[r].ioBeforeAck

\* C4: every /poker or /poker-reveal request whose handler has returned was
\* answered with the HTTP 200 acknowledgment.
C4_CommandAcknowledged ==
  \A r \in Slots :
    (IsCommand(r) /\ pc[r] = "done") => (Len(http[r]) = 1 /\ http[r][1].status = 200)

\* C5: in a sequential scenario a vote action that saved the vote (and whose
\* prior-vote check succeeded) is answered recorded when the pair had no vote
\* yet and updated when it had one.
C5_RecordedThenUpdated ==
  \A r \in Slots :
    (IsAction(r) /\ pc[r] = "done" /\ loc[r].saved /\ loc[r].checkSuccess /\ ~loc[r].overlap)
    => http[r] = <<Reply(200, IF loc[r].hadRow THEN Updated ELSE Recorded, req[r].vote)>>

ActionTexts ==
  {MissingPayload, NoActionsFound, UnsupportedAction, InvalidVoteData, UnsupportedType,
   SaveError, ActionError, Recorded, Updated}

\* C6: a request to /actions gets exactly one synchronous HTTP response, with
\* status 200 and a text, whatever the payload, the store, the token lookup or
\* the reaction did; nothing is POSTed to a response_url.
C6_ActionAnsweredOnce ==
  \A r \in Slots :
    IsAction(r) =>
      /\ delayed[r] = <<>>
      /\ Len(http[r]) <= 1
      /\ pc[r] = "done" => /\ Len(http[r]) = 1
                           /\ http[r][1].status = 200
                           /\ http[r][1].text \in ActionTexts

\* C6 witness: a vote action was answered by the catch block: its vote was
\* saved and the token lookup for the reaction threw.
C6_Witness ==
  \E r \in Slots :
    /\ IsAction(r) /\ pc[r] = "done" /\ loc[r].saved /\ loc[r].tok.thrown
    /\ http[r] = <<Reply(200, ActionError, 0)>>

\* C7 as stated: an unparseable payload is answered with status 200 and
\* "Invalid vote data", and no vote is saved.
C7_MalformedPayloadInvalidVoteData ==
  \A r \in Slots :
    (IsAction(r) /\ pc[r] = "done" /\ req[r].shape = "badjson")
    => (http[r] = <<Reply(200, InvalidVoteData, 0)>> /\ ~loc[r].saveIssued)

\* C7 amended: an unparseable payload is answered with status 200 and the
\* generic action error of the catch block; "Invalid vote data" answers a
\* parseable payload whose action value is unparseable; no vote is saved in
\* either case.
C7_MalformedPayloadGenericError ==
  \A r \in Slots :
    (IsAction(r) /\ pc[r] = "done") =>
      /\ req[r].shape = "badjson" =>
           (http[r] = <<Reply(200, ActionError, 0)>> /\ ~loc[r].saveIssued)
      /\ req[r].shape = "badvalue" =>
           (http[r] = <<Reply(200, InvalidVoteData, 0)>> /\ ~loc[r].saveIssued)

\* C7 witness: a request with an unparseable payload has been answered.
C7_Witness ==
  \E r \in Slots : IsAction(r) /\ pc[r] = "done" /\ req[r].shape = "badjson"
                   /\ Len(http[r]) = 1

\* C8: getBotToken never throws and returns the default token without a team
\* id, the stored bot token when the team has an installation, and the
\* default token when the lookup fails or finds no installation.
C8_TokenAlwaysResolved ==
  \A r \in Slots :
    IsCommand(r) =>
      /\ ~loc[r].tok.thrown
      /\ loc[r].look = "found" => loc[r].tok.value = InstalledToken
      /\ loc[r].look \in {"none", "failed", "empty"} => loc[r].tok.value = DefaultToken

\* C9: a /poker-reveal in a channel that never had a session ends with the
\* "no active session" delayed message; getLatestSessionForChannel returned
\* no session (null on success, failure on a store error), no votes were
\* fetched.
C9_RevealWithoutSession ==
  \A r \in Slots :
    (/\ req[r].kind = "reveal" /\ pc[r] = "done"
     /\ {s \in sessions : s.channel = req[r].channel} = {})
    => /\ delayed[r] = <<TextMsg(NoActiveSession)>>
       /\ loc[r].latest \in {"null", "failed"}
       /\ loc[r].fetch = "none"

\* C10: a reveal that resolved its session ends with the retrieval-error
\* message when getSessionVotes failed, with the "no votes" message when it
\* returned zero votes, and with the results otherwise; the three differ.
C10_FetchFailureIsNotNoVotes ==
  \A r \in Slots :
    (req[r].kind = "reveal" /\ pc[r] = "done" /\ loc[r].latest = "session") =>
      /\ loc[r].fetch \in {"failed", "empty", "votes"}
      /\ loc[r].fetch = "failed" => delayed[r] = <<TextMsg(RetrievalError)>>
      /\ loc[r].fetch = "empty" => delayed[r] = <<TextMsg(NoVotesText)>>
      /\ loc[r].fetch = "votes" => (Len(delayed[r]) = 1 /\ delayed[r][1].type = "results")

\* C10 witness: a reveal has ended on a failed fetch of the votes of a session
\* that has votes in the store.
C10_Witness ==
  \E r \in Slots :
    /\ req[r].kind = "reveal" /\ pc[r] = "done" /\ loc[r].latest = "session"
    /\ loc[r].fetch = "failed"
    /\ VotesOf((CHOOSE s \in loc[r].session : TRUE).id) # {}

\* C11: a createSession whose insert failed leaves the sessions table and the
\* cache as they were, returns no session id, and its /poker ends with the
\* creation-error message; the channel's latest session is what it was.
C11_FailedInsertChangesNothing ==
  [][\A r \in Slots :
       /\ (req'[r].kind = "poker" /\ pc[r] # "p_insert" /\ pc'[r] = "p_insert"
             /\ ~loc'[r].ok)
          => /\ sessions' = sessions
             /\ latestSessionPerChannel' = latestSessionPerChannel
       /\ (pc[r] = "p_insert" /\ ~loc[r].ok /\ pc'[r] = "done")
          => /\ sessions' = sessions
             /\ latestSessionPerChannel' = latestSessionPerChannel
             /\ lastReturned' = lastReturned
             /\ loc'[r].sid = NoSession
             /\ delayed'[r] = <<TextMsg(CreateError)>>]_vars

\* C11 witness: a /poker has ended on a failed insert in a channel whose
\* cached latest session is still the newest row of the channel.
C11_Witness ==
  \E r \in Slots :
    /\ req[r].kind = "poker" /\ pc[r] = "done"
    /\ delayed[r] = <<TextMsg(CreateError)>>
    /\ latestSessionPerChannel[req[r].channel] # NoSession
    /\ LatestByChannel(req[r].channel) # {}
    /\ LatestByChannel(req[r].channel) =
         SessionsById(latestSessionPerChannel[req[r].channel])

\* C12: a /poker with an empty issue text ends with the usage hint as its
\* delayed message and creates no session.
C12_EmptyTextUsageHint ==
  \A r \in Slots :
    (req[r].kind = "poker" /\ req[r].text = "" /\ pc[r] = "done")
    => (delayed[r] = <<TextMsg(UsageHint)>> /\ loc[r].sid = NoSession)

\* C13: no step of a /poker-reveal changes the sessions or the votes table;
\* the votes a reveal fetches are the rows the session has in the table at
\* that moment, so votes saved after an earlier reveal are in it, and they
\* are what its results message shows.
C13_RevealKeepsSessionOpen ==
  [][\A r \in Slots :
       /\ (req'[r].kind = "reveal" /\ pc'[r] # pc[r])
          => (sessions' = sessions /\ votes' = votes)
       /\ (req'[r].kind = "reveal" /\ pc[r] # "r_votes" /\ pc'[r] = "r_votes"
             /\ loc'[r].ok)
          => loc'[r].votes =
               {v \in votes : \E x \in loc'[r].session : v.session_id = x.id}
       /\ (req[r].kind = "reveal" /\ pc[r] = "r_votes" /\ pc'[r] = "done"
             /\ loc'[r].fetch = "votes")
          => \E x \in loc[r].session :
               delayed'[r] = <<formatPokerResults(loc[r].votes, x.issue, x.id)>>]_vars

\* C13 witness: a vote action that came after a reveal of its session had
\* ended has replaced the user's vote, and a later reveal has shown the new
\* vote.
C13_Witness ==
  \E r \in Slots : \E q \in Slots \ {r} :
    /\ req[r].kind = "reveal" /\ pc[r] = "done" /\ loc[r].fetch = "votes"
    /\ req[q].kind = "action" /\ pc[q] = "a_save"
    /\ loc[q].afterReveal /\ loc[q].ok /\ loc[q].hadRow
    /\ VoteRow(req[q].sessionId, req[q].user, req[q].vote, req[q].name) \in loc[r].votes
    /\ PersistedVote \notin loc[r].votes

\* C14: the votes a /poker-reveal reports are rows of the channel's latest
\* session, the one the last createSession of the channel returned.
C14_RevealShowsLatestSessionVotes ==
  \A r \in Slots :
    (/\ req[r].kind = "reveal" /\ pc[r] = "done" /\ loc[r].fetch = "votes"
     /\ loc[r].seen # NoSession
     /\ Settled(req[r].channel) = loc[r].seen)
    => \A v \in loc[r].votes : v.session_id = loc[r].seen

\* C15: a createSession changes nothing but the row it inserts and, once the
\* insert has succeeded, the cache entry of its channel: every other session
\* row, every vote row and the cache entries of the other channels stay.
C15_NewSessionKeepsOldRows ==
  [][\A r \in Slots :
       /\ (req'[r].kind = "poker" /\ pc[r] # "p_insert" /\ pc'[r] = "p_insert")
          => /\ sessions \subseteq sessions'
             /\ sessions' \ sessions \subseteq
                  {SessionRow(loc'[r].sid, req'[r].channel, req'[r].text, loc'[r].sid)}
             /\ loc'[r].ok => \E s \in sessions' : s.id = loc'[r].sid
             /\ votes' = votes
             /\ latestSessionPerChannel' = latestSessionPerChannel
       /\ (req[r].kind = "poker" /\ pc[r] = "p_insert" /\ pc'[r] = "done")
          => /\ sessions' = sessions
             /\ votes' = votes
             /\ \A c \in Channels \ {req[r].channel} :
                  latestSessionPerChannel'[c] = latestSessionPerChannel[c]
             /\ loc[r].ok => latestSessionPerChannel'[req[r].channel] = loc[r].sid]_vars

\* C15 witness: a /poker has created a session in a channel whose previous
\* session, with its vote, is still in the store.
C15_Witness ==
  \E r \in Slots :
    /\ req[r].kind = "poker" /\ pc[r] = "done" /\ loc[r].sid # NoSession
    /\ latestSessionPerChannel[req[r].channel] = loc[r].sid
    /\ \E s \in sessions :
         /\ s.channel = req[r].channel /\ s.id # loc[r].sid
         /\ VotesOf(s.id) # {}

\* C16: every entry of the latest-session cache is the id of a session row
\* that exists, also after a retention sweep.
C16_CachedSessionExists ==
  \A c \in Channels :
    latestSessionPerChannel[c] # NoSession => SessionsById(latestSessionPerChannel[c]) # {}

\* C17: a getLatestSessionForChannel that finds no cache entry for its
\* channel returns, when its query succeeds, the session of the channel with
\* the greatest created_at, or null when the channel has none; a session it
\* found becomes the cache entry of the channel.
C17_ColdCacheReadsNewest ==
  [][\A r \in Slots :
       /\ (req'[r].kind = "reveal" /\ pc[r] \notin {"r_byid", "r_bychan"}
             /\ pc'[r] = "r_bychan" /\ loc'[r].ok)
          => LET mine == {s \in sessions : s.channel = req'[r].channel} IN
             /\ loc'[r].cold
             /\ latestSessionPerChannel[req'[r].channel] = NoSession
             /\ loc'[r].rows \subseteq mine
             /\ mine # {} => Cardinality(loc'[r].rows) = 1
             /\ \A x \in loc'[r].rows : \A s \in mine : s.created_at <= x.created_at
       /\ (req[r].kind = "reveal" /\ pc[r] = "r_bychan" /\ loc[r].ok
             /\ pc'[r] \in {"r_votes", "done"})
          => IF loc[r].rows = {}
             THEN /\ loc'[r].latest = "null"
                  /\ latestSessionPerChannel' = latestSessionPerChannel
             ELSE /\ loc'[r].latest = "session"
                  /\ loc'[r].session = loc[r].rows
                  /\ \A x \in loc[r].rows :
                       latestSessionPerChannel'[req[r].channel] = x.id]_vars

\* C17 witness: after a restart emptied the cache that a createSession had
\* written, a reveal has resolved the newer of the two sessions of its
\* channel and the cache holds its id again.
C17_Witness ==
  \E r \in Slots :
    LET mine == {s \in sessions : s.channel = req[r].channel} IN
    /\ req[r].kind = "reveal" /\ pc[r] = "r_votes" /\ loc[r].cold
    /\ lastReturned[req[r].channel] # NoSession
    /\ Cardinality(mine) >= 2
    /\ \E x \in loc[r].session :
         /\ \A s \in mine : s.created_at <= x.created_at
         /\ latestSessionPerChannel[req[r].channel] = x.id

\* C18: the ids generated by different createSession calls differ.
C18_DistinctSessionIds ==
  \A r \in Slots : \A q \in Slots \ {r} :
    (/\ req[r].kind = "poker" /\ req[q].kind = "poker"
     /\ pc[r] = "p_insert" /\ pc[q] = "p_insert")
    => loc[r].sid # loc[q].sid

\* C19: every vote row has a vote value of the scale 1, 2, 3, 5, 8.
C19_VotesOnScale ==
  \A v \in votes : v.vote \in ButtonValues

\* C20: saveVote is not issued before hasUserVoted has returned, and a vote
\* action whose save succeeded is answered updated when the check succeeded
\* and found a vote, recorded otherwise.
C20_CheckThenSaveThenWording ==
  \A r \in Slots :
    IsAction(r) =>
      /\ pc[r] = "a_check" => ~loc[r].saveIssued
      /\ (pc[r] = "done" /\ loc[r].saved)
         => http[r] = <<Reply(200, IF loc[r].checkSuccess /\ loc[r].hasVoted
                                   THEN Updated ELSE Recorded, req[r].vote)>>

\* C21: a vote action whose save succeeded and whose payload has a channel
\* and a message timestamp has called addReaction with the token resolved for
\* the team of the payload, and is answered with the vote confirmation,
\* whatever addReaction did.
C21_ReactionNeverAltersConfirmation ==
  \A r \in Slots :
    (IsAction(r) /\ pc[r] = "done" /\ loc[r].saved /\ req[r].ts) =>
      /\ ~loc[r].tok.thrown
      /\ loc[r].reactions >= 1
      /\ http[r] = <<Confirmation(r)>>

\* C22: a saved vote gets a reaction when the prior-vote check reported no
\* earlier vote and none when it reported one; the update is still answered
\* with the updated confirmation.
C22_ReactionOnlyForFirstVote ==
  \A r \in Slots :
    (IsAction(r) /\ pc[r] = "done" /\ loc[r].saved /\ req[r].ts /\ ~loc[r].tok.thrown) =>
      /\ (loc[r].checkSuccess /\ ~loc[r].hasVoted) => loc[r].reactions >= 1
      /\ (loc[r].checkSuccess /\ loc[r].hasVoted)
           => /\ loc[r].reactions = 0
              /\ http[r] = <<Reply(200, Updated, req[r].vote)>>

\* C23: the step in which saveVote fails leaves the votes as they are, and
\* the handler then answers 200 with the save error alone: no confirmation,
\* no token lookup and no reaction.
C23_FailedSaveAnswersError ==
  [][\A r \in Slots :
       /\ (pc[r] = "a_check" /\ pc'[r] = "a_save" /\ ~loc'[r].ok)
            => /\ votes' = votes
               /\ lastUpsert' = lastUpsert
       /\ (pc[r] = "a_save" /\ ~loc[r].ok /\ pc'[r] = "done")
            => /\ http'[r] = <<Reply(200, SaveError, 0)>>
               /\ votes' = votes
               /\ ~loc'[r].saved
               /\ loc'[r].reactions = 0
               /\ loc'[r].look = "none"
               /\ ~req'[r].ts]_vars

\* a vote action whose save failed has ended
C23_Witness ==
  \E r \in Slots :
    /\ IsAction(r) /\ pc[r] = "done"
    /\ loc[r].saveIssued /\ ~loc[r].saved
    /\ http[r] = <<Reply(200, SaveError, 0)>>

C25_SessionVotesAllOrNothing ==
  [][\A r \in Slots :
       /\ (pc[r] # "r_votes" /\ pc'[r] = "r_votes" /\ loc'[r].ok)
            => loc'[r].votes = VotesOf((CHOOSE x \in loc'[r].session : TRUE).id)
       /\ (pc[r] = "r_votes" /\ pc'[r] = "done")
            => LET res == loc'[r].result
                   id == (CHOOSE x \in loc[r].session : TRUE).id
               IN
               /\ ~loc[r].ok => ~res.success
               /\ res.success
                    => /\ res.votes = Some(loc[r].votes)
                       /\ \A v \in loc[r].votes : v.session_id = id
                       /\ IF SessionsById(id) = {} THEN res.session = Null
                          ELSE res.session = Some(CHOOSE x \in SessionsById(id) : TRUE)
               /\ ~res.success => res.votes = Null /\ res.session = Null]_vars

\* getSessionVotes has returned the votes it found with a null session: the
\* session row was deleted between its two queries
C25_Witness ==
  \E r \in Slots :
    /\ req[r].kind = "reveal" /\ pc[r] = "done"
    /\ loc[r].result.success
    /\ loc[r].result.session = Null
    /\ loc[r].result.votes # Null /\ loc[r].result.votes # Some({})

RECURSIVE SumOfCounts(_)
SumOfCounts(d) == IF d = <<>> THEN 0 ELSE d[1].count + SumOfCounts(Tail(d))

RECURSIVE SumOfNames(_)
SumOfNames(f) ==
  IF DOMAIN f = {} THEN 0
  ELSE LET n == CHOOSE x \in DOMAIN f : TRUE
       IN f[n] + SumOfNames([x \in DOMAIN f \ {n} |-> f[x]])

\* C27: the results message of a non-empty list of votes lists every distinct
\* value once, in ascending order of the numbers, each with the number of
\* votes of that value and the names of their voters; the total is the number
\* of vote rows and the counts add up to it.
C27_ResultsAscendingWithCounts ==
  \A r \in Slots :
    (req[r].kind = "reveal" /\ pc[r] = "done" /\ loc[r].fetch = "votes" /\ delayed[r] # <<>>) =>
      LET m == delayed[r][1]
          vs == loc[r].votes
          d == m.dist
          shown(v) == IF v.username = "" THEN v.user_id ELSE v.username
      IN
      /\ m.type = "results"
      /\ \A i, j \in 1..Len(d) : i < j => d[i].value < d[j].value
      /\ {d[i].value : i \in 1..Len(d)} = {v.vote : v \in vs}
      /\ \A i \in 1..Len(d) :
           LET of == {v \in vs : v.vote = d[i].value} IN
           /\ d[i].count = Cardinality(of)
           /\ DOMAIN d[i].users = {shown(v) : v \in of}
           /\ \A n \in DOMAIN d[i].users :
                d[i].users[n] = Cardinality({v \in of : shown(v) = n})
           /\ SumOfNames(d[i].users) = d[i].count
      /\ m.total = Cardinality(vs)
      /\ SumOfCounts(d) = m.total

\* the results of two votes of different values, 5 before 13
C27_Witness ==
  \E r \in Slots :
    /\ req[r].kind = "reveal" /\ pc[r] = "done" /\ delayed[r] # <<>>
    /\ delayed[r][1].type = "results"
    /\ Len(delayed[r][1].dist) = 2
    /\ delayed[r][1].dist[1].value = 5 /\ delayed[r][1].dist[2].value = 13

\* C28: the OAuth callback redirects only when the installation of the team
\* is in the store, and the installer who follows the redirect is served the
\* installation-success page.
C28_RedirectLeadsToSuccessPage ==
  \A r \in Slots :
    req[r].kind = "oauth" =>
      /\ (http[r] # <<>> /\ http[r][1].status = 302)
           => [team_id |-> req[r].team, bot_token |-> IssuedToken] \in installations
      /\ (pc[r] = "done" /\ Len(http[r]) = 2)
           => http[r][2] = Reply(200, SuccessPage, 0)

\* C29: a command whose response_url has been posted to has had its HTTP
\* acknowledgment sent before, on every path of the handler.
C29_AckBeforeDelayedResponse ==
  \A r \in Slots :
    (IsCommand(r) /\ delayed[r] # <<>>) => (http[r] # <<>> /\ http[r][1] = Ack)

\* C30: when the lookup by the cached id succeeds and finds no row,
\* getLatestSessionForChannel goes on to the query by channel, which returns
\* the session of the channel with the greatest created_at; that session is
\* returned and becomes the cache entry of the channel, and when the channel
\* has no session the result is success with no session.
C30_StaleCacheFallsThrough ==
  [][\A r \in Slots :
       /\ (pc[r] = "r_byid" /\ loc[r].ok /\ loc[r].rows = {} /\ pc'[r] # "r_byid")
            => LET mine == {x \in sessions : x.channel = req[r].channel} IN
               /\ pc'[r] = "r_bychan"
               /\ loc'[r].stale
               /\ delayed'[r] = <<>>
               /\ loc'[r].ok
                    => /\ loc'[r].rows \subseteq mine
                       /\ mine # {} => Cardinality(loc'[r].rows) = 1
                       /\ \A x \in loc'[r].rows : \A y \in mine : y.created_at <= x.created_at
       /\ (pc[r] = "r_bychan" /\ loc[r].stale /\ loc[r].ok /\ pc'[r] \in {"r_votes", "done"})
            => IF loc[r].rows = {}
               THEN /\ pc'[r] = "done"
                    /\ loc'[r].latest = "null"
                    /\ latestSessionPerChannel' = latestSessionPerChannel
               ELSE /\ pc'[r] = "r_votes"
                    /\ loc'[r].latest = "session"
                    /\ loc'[r].session = loc[r].rows
                    /\ \E x \in loc[r].rows :
                         latestSessionPerChannel' =
                           [latestSessionPerChannel EXCEPT ![req[r].channel] = x.id]]_vars

\* a reveal whose cached id had no row any more has found the newer session
\* of the channel, which is now the cache entry
C30_Witness ==
  \E r \in Slots :
    /\ req[r].kind = "reveal" /\ loc[r].stale /\ loc[r].latest = "session"
    /\ \E x \in loc[r].session :
         /\ x \in sessions
         /\ latestSessionPerChannel[req[r].channel] = x.id

\* C31: a createSession whose insert succeeded writes its own id as the cache
\* entry of its channel when the insert returns, whatever entry was there,
\* touches no entry of another channel and no session row; two calls of one
\* channel whose inserts both succeeded leave both rows in the store.
C31_LastWriterWins ==
  [][\A r \in Slots :
       (req[r].kind = "poker" /\ pc[r] = "p_insert" /\ loc[r].ok /\ pc'[r] = "done") =>
         /\ latestSessionPerChannel'[req[r].channel] = loc[r].sid
         /\ \A c \in Channels \ {req[r].channel} :
              latestSessionPerChannel'[c] = latestSessionPerChannel[c]
         /\ sessions' = sessions
         /\ \A q \in Slots :
              (req[q].kind = "poker" /\ pc[q] = "p_insert" /\ loc[q].ok)
                => \E x \in sessions' : x.id = loc[q].sid /\ x.channel = req[q].channel]_vars

\* two /poker of one channel have interleaved: the one that inserted first
\* returned last, and its id is the cache entry although the other session
\* is the newer one
C31_Witness ==
  \E r \in Slots :
    /\ req[r].kind = "poker" /\ pc[r] = "done" /\ loc[r].sid # NoSession
    /\ \A q \in Slots : pc[q] # "p_insert"
    /\ latestSessionPerChannel[req[r].channel] = loc[r].sid
    /\ \E x, y \in sessions :
         /\ x.id = loc[r].sid /\ x.channel = req[r].channel
         /\ y.channel = req[r].channel /\ y.created_at > x.created_at
         /\ lastReturned[req[r].channel] = loc[r].sid

\* the fixed error text of a payload shape that the validation rejects
RejectionText(shape) ==
  CASE shape = "missing" -> MissingPayload
    [] shape = "badtype" -> UnsupportedType
    [] shape = "noactions" -> NoActionsFound
    [] shape \in {"notvote", "noid"} -> UnsupportedAction
    [] shape = "badvalue" -> InvalidVoteData

\* C32: an action request whose payload is missing, of unsupported type,
\* without actions, with an action that is no vote action of its shape, or
\* with an unparseable action value is answered with its fixed error text,
\* without any call of saveVote or reactions.add
C32_RejectedAtValidation ==
  \A r \in Slots :
    (IsAction(r) /\ pc[r] = "done"
       /\ req[r].shape \in {"missing", "badtype", "noactions", "notvote", "noid", "badvalue"}) =>
      /\ http[r] = <<Reply(200, RejectionText(req[r].shape), 0)>>
      /\ ~loc[r].saveIssued
      /\ loc[r].reactions = 0
      /\ delayed[r] = <<>>

\* C33: when reactions.add answers already_reacted, addReaction posts again
\* with an emoji of the pool other than the one just refused; when it answers
\* not_in_channel or missing_scope, addReaction makes no further call and the
\* handler goes on to its confirmation
C33_RetryWithDifferentEmoji ==
  [][\A r \in Slots :
       (pc[r] = "a_react" /\ loc'[r] # loc[r]) =>
         /\ pc'[r] = "a_react" =>
              /\ loc'[r].answer = "already_reacted"
              /\ loc'[r].reaction \in voteEmojis \ {loc[r].reaction}
         /\ loc'[r].answer \in {"not_in_channel", "missing_scope"} =>
              /\ pc'[r] = "done"
              /\ loc'[r].reactions = loc[r].reactions
              /\ http'[r] = <<Confirmation(r)>>]_vars

C35_OneDelayedResponse ==
  \A r \in Slots :
    (req[r].kind \in {"poker", "reveal"} /\ req[r].url) =>
      /\ pc[r] = "done" => Len(delayed[r]) = 1
      /\ pc[r] # "done" => Len(delayed[r]) = 0

\* a command whose token lookup threw: the catch block posted the one message
C35_Witness ==
  \E r \in Slots :
    /\ req[r].kind \in {"poker", "reveal"} /\ req[r].url /\ pc[r] = "done"
    /\ loc[r].tok.thrown
    /\ delayed[r] = <<TextMsg(CommandError)>>
    /\ http[r] = <<>>

\* C36: a vote action is answered with the recorded or updated confirmation
\* exactly when its saveVote succeeded.
C36_ConfirmationIffSaved ==
  \A r \in Slots :
    (IsAction(r) /\ pc[r] = "done") =>
      ((\E reply \in {http[r][i] : i \in 1..Len(http[r])} : reply.text \in {Recorded, Updated})
         <=> loc[r].saved)

\* C37: a vote action whose prior-vote check succeeded and that is answered
\* recorded has created the row of its pair: no row of the pair was in the
\* store when its upsert was applied, so that among the vote actions of one
\* pair at most one is answered recorded.
C37_AtMostOneRecorded ==
  \A r \in Slots :
    (IsAction(r) /\ pc[r] = "done" /\ loc[r].checkSuccess
       /\ http[r] = <<Reply(200, Recorded, req[r].vote)>>)
      => ~loc[r].hadRow

\* C38: while no createSession is in flight, an entry of the cache is the id
\* of the session of its channel with the greatest created_at.
C38_CacheIsTransparent ==
  (\A q \in Slots : pc[q] # "p_insert") =>
    \A c \in Channels :
      latestSessionPerChannel[c] # NoSession =>
        \E x \in sessions :
          /\ x.id = latestSessionPerChannel[c] /\ x.channel = c
          /\ \A y \in sessions : y.channel = c => y.created_at <= x.created_at


\* C39: a vote action whose handler awaits addReaction is answered in the end
C39_ReactionTerminates ==
  \A r \in Slots : (pc[r] = "a_react") ~> (pc[r] = "done")

====
